---------------------------- MODULE Spec2Model ----------------------------
(***************************************************************************)
(* A model of the CID class of src/cid.py (pycid): a causal influence      *)
(* diagram is a DAG whose nodes carry conditional distributions (CPDs),    *)
(* with a list of decision nodes and a list of utility nodes.              *)
(*                                                                         *)
(* Python objects are references: every CID instance lives in `heap` under *)
(* a reference, self.copy() allocates a new instance, and every method     *)
(* writes through the reference it was given.  Instances that only the     *)
(* locals of a finished call referred to are dropped from the heap.        *)
(***************************************************************************)
EXTENDS Integers, Sequences, FiniteSets, TLC

\* Number of states of every variable (state names are 0 .. MaxCard-1).
MaxCard == 2
\* Longest batch of CPDs a caller hands to add_cpds in one call.
MaxBatch == 2

VARIABLES
  heap,      \* reference -> CID instance (edges, role lists, cpds)
  pc,        \* "idle", or the position inside solve / impute_optimal_policy
  op,        \* the public method that ran last / is running
  tgt,       \* the instance the running solver works on (self or new_cid)
  todo,      \* decisions the list comprehension of line 77 has yet to visit
  computed,  \* the CPDs the comprehension has produced so far
  trace,     \* what the last _get_sp_policy call did, context by context
  result,    \* what the last call returned or raised
  pre,       \* the caller's instance as it was when the last call started
  last,      \* arguments of the last call
  broken     \* decisions for which the external inference engine raises

vars == <<heap, pc, op, tgt, todo, computed, trace, result, pre, last, broken>>

\* The caller's instance.
Self == 1

\* Every node name, in the order the graph library iterates over them; 'pi' is
\* the marker node of check_sufficient_recall.
AllNodes == <<"X", "D1", "D2", "U", "pi">>

\* F applied to the value of v, v being evaluated once (a local variable).
Bind(v, F(_)) == CHOOSE y \in {F(x) : x \in {v}} : TRUE

Range(s) == {s[i] : i \in DOMAIN s}

SetToSeq(S) == SelectSeq(AllNodes, LAMBDA n : n \in S)

Min(S) == CHOOSE x \in S : \A y \in S : x <= y

Max(S) == CHOOSE x \in S : \A y \in S : y <= x

Reverse(s) == [i \in DOMAIN s |-> s[Len(s) + 1 - i]]

RECURSIVE SumOver(_, _)
SumOver(S, f) ==
  IF S = {} THEN 0
  ELSE Bind(CHOOSE y \in S : TRUE,
            LAMBDA x : f[x] + Bind(S \ {x}, LAMBDA T : SumOver(T, f)))

RECURSIVE ProdOver(_, _)
ProdOver(S, f) ==
  IF S = {} THEN 1
  ELSE Bind(CHOOSE y \in S : TRUE,
            LAMBDA x : f[x] * Bind(S \ {x}, LAMBDA T : ProdOver(T, f)))

Product(cards) == ProdOver(DOMAIN cards, cards)

---------------------------------------------------------------------------
\* Graph primitives (networkx / pgmpy), as the CID methods use them.

nodes(m) == {e[1] : e \in m.edges} \cup {e[2] : e \in m.edges}

get_parents(m, n) == SetToSeq({e[1] : e \in {f \in m.edges : f[2] = n}})

RECURSIVE TopoFrom(_, _)
TopoFrom(edges, remaining) ==
  IF remaining = {} THEN <<>>
  ELSE Bind({n \in remaining : ~ \E e \in edges : e[2] = n /\ e[1] \in remaining},
            LAMBDA zero :
              IF zero = {} THEN <<>>
              ELSE SetToSeq(zero)
                   \o Bind(remaining \ zero, LAMBDA rest : TopoFrom(edges, rest)))

topological_sort(m) == TopoFrom(m.edges, nodes(m))

RECURSIVE AncestorsFrom(_, _)
AncestorsFrom(edges, S) ==
  Bind(S \cup {e[1] : e \in {f \in edges : f[2] \in S}},
       LAMBDA more : IF more = S THEN S ELSE AncestorsFrom(edges, more))

\* pgmpy: the ancestors of a node, the node itself included.
get_ancestors_of(m, n) == AncestorsFrom(m.edges, {n})

IsAcyclic(edges) ==
  Bind({e[1] : e \in edges} \cup {e[2] : e \in edges},
       LAMBDA ns : Len(TopoFrom(edges, ns)) = Cardinality(ns))

\* Lines 50-52.
get_valid_order(m, ns) ==
  SelectSeq(topological_sort(m), LAMBDA i : i \in Range(ns))

---------------------------------------------------------------------------
\* Conditional distributions.  A table is a sequence of rows, one per state of
\* the variable (the action dimension is primary), each row a sequence over the
\* contexts of the evidence (the last evidence variable varies fastest).
\* Entries are probabilities up to a factor common to the whole table.

TabularCPD(v, card, table, evidence) ==
  [variable |-> v, kind |-> "Tabular", card |-> card, evidence |-> evidence,
   table |-> table, fn |-> <<>>]

NullCPD(v, card) ==
  [variable |-> v, kind |-> "Null", card |-> card, evidence |-> <<>>,
   table |-> <<>>, fn |-> <<>>]

FunctionCPD(v, f, evidence) ==
  [variable |-> v, kind |-> "Function", card |-> MaxCard, evidence |-> evidence,
   table |-> <<>>, fn |-> f]

scope(cpd) == {cpd.variable} \cup Range(cpd.evidence)

\* The position of variable v's CPD in the list, 0 when it has none.
CpdIndex(cpds, v) ==
  IF \E i \in DOMAIN cpds : cpds[i].variable = v
  THEN Min({i \in DOMAIN cpds : cpds[i].variable = v})
  ELSE 0

\* None: what get_cpds returns for a node without a CPD.
NoCpd == [variable |-> "", kind |-> "None", card |-> 0, evidence |-> <<>>,
          table |-> <<>>, fn |-> <<>>]

get_cpds(m, v) ==
  IF CpdIndex(m.cpds, v) = 0 THEN NoCpd ELSE m.cpds[CpdIndex(m.cpds, v)]

\* pgmpy get_cardinality reads the cardinality off the node's CPD.
get_cardinality(m, n) == get_cpds(m, n).card

\* Lines 139-140, np.eye(n_actions)[indices].T : one row per action, one
\* column per entry of indices.
indices_to_prob_table(indices, n_actions) ==
  [a \in 1 .. n_actions |->
     [k \in 1 .. Len(indices) |-> IF indices[k] = a - 1 THEN 1 ELSE 0]]

Ones(card, ncols) == [a \in 1 .. card |-> [k \in 1 .. ncols |-> 1]]

\* Materialisation of a placeholder or functional distribution against the
\* model it is attached to: its table is computed once all its parents have a
\* distribution to read a cardinality from.
initializeTabularCPD(cpd, m) ==
  Bind(IF cpd.kind = "Null" THEN get_parents(m, cpd.variable) ELSE cpd.evidence,
       LAMBDA ps :
         IF \E i \in DOMAIN ps : CpdIndex(m.cpds, ps[i]) = 0 THEN cpd
         ELSE Bind(Product([i \in DOMAIN ps |-> get_cardinality(m, ps[i])]),
                   LAMBDA ncols :
                     IF cpd.kind = "Null"
                       THEN [cpd EXCEPT !.evidence = ps,
                                        !.table = Ones(cpd.card, ncols)]
                     ELSE IF Len(cpd.fn) = ncols
                       THEN [cpd EXCEPT
                               !.table = indices_to_prob_table(cpd.fn, cpd.card)]
                     ELSE cpd))

hasInitialize(cpd) == cpd.kind \in {"Null", "Function"}

\* Only a functional distribution can be converted to a table; pgmpy's
\* TabularCPD (line 6) has no convertToTabularCPD.
hasConvert(cpd) == cpd.kind = "Function"

\* FunctionCPD.convertToTabularCPD: the table the function was materialised to.
convertToTabularCPD(cpd) ==
  TabularCPD(cpd.variable, cpd.card, cpd.table, cpd.evidence)

---------------------------------------------------------------------------
\* CID.add_cpds.  The attach loop validates and attaches the CPDs one by one,
\* so a failing CPD leaves the ones before it attached; the materialisation
\* pass runs only when the loop raised nothing.

AcceptedKinds == {"Tabular", "Continuous", "Null", "Function"}

AttachAppendOnly(cpds, cpd) == Append(cpds, cpd)

AttachKeepFirst(cpds, cpd) ==
  IF CpdIndex(cpds, cpd.variable) # 0 THEN cpds ELSE Append(cpds, cpd)

\* Lines 35-43: replace the CPD of the same variable, else append.
Attach(cpds, cpd) ==
  IF CpdIndex(cpds, cpd.variable) # 0
  THEN [cpds EXCEPT ![CpdIndex(cpds, cpd.variable)] = cpd]
  ELSE Append(cpds, cpd)

\* Lines 28-43, from the i-th CPD of the batch on.
RECURSIVE AttachLoop(_, _, _, _)
AttachLoop(cpds, batch, i, ns) ==
  IF i > Len(batch) THEN [cpds |-> cpds, err |-> "ok"]
  ELSE IF batch[i].kind \notin AcceptedKinds
    THEN [cpds |-> cpds, err |-> "ValueError"]
  ELSE IF scope(batch[i]) \ (scope(batch[i]) \cap ns) # {}
    THEN [cpds |-> cpds, err |-> "ValueError"]
  ELSE Bind(Attach(cpds, batch[i]),
            LAMBDA next : Bind(i + 1, LAMBDA j : AttachLoop(next, batch, j, ns)))

\* Lines 46-48, from the i-th attached CPD on.
RECURSIVE InitLoop(_, _)
InitLoop(m, i) ==
  IF i > Len(m.cpds) THEN m
  ELSE Bind(IF hasInitialize(m.cpds[i])
            THEN [m EXCEPT !.cpds[i] = initializeTabularCPD(m.cpds[i], m)]
            ELSE m,
            LAMBDA m2 : Bind(i + 1, LAMBDA j : InitLoop(m2, j)))

\* Lines 26-48: the heap after h[ref].add_cpds(*batch), and "ok" or the error.
add_cpds(h, ref, batch) ==
  Bind(AttachLoop(h[ref].cpds, batch, 1, nodes(h[ref])),
       LAMBDA r :
         IF r.err # "ok"
         THEN [heap |-> [h EXCEPT ![ref].cpds = r.cpds], err |-> r.err]
         ELSE [heap |-> [h EXCEPT
                           ![ref] = InitLoop([h[ref] EXCEPT !.cpds = r.cpds], 1)],
               err |-> "ok"])

---------------------------------------------------------------------------
\* CID.copy (lines 252-256): a new instance built from the edges and the
\* (shared, never written) role lists, with a copy of every CPD attached.

CID(edges, decision_nodes, utility_nodes) ==
  [edges |-> edges, decision_nodes |-> decision_nodes,
   utility_nodes |-> utility_nodes, cpds |-> <<>>]

NewRef(h) == Max(DOMAIN h) + 1

copyAlias(h, ref) == [heap |-> h, ref |-> ref]

copy(h, ref) ==
  Bind([r \in DOMAIN h \cup {NewRef(h)} |->
          IF r \in DOMAIN h THEN h[r]
          ELSE CID(h[ref].edges, h[ref].decision_nodes, h[ref].utility_nodes)],
       LAMBDA h1 :
         IF h[ref].cpds # <<>>
         THEN [heap |-> add_cpds(h1, NewRef(h), h[ref].cpds).heap, ref |-> NewRef(h)]
         ELSE [heap |-> h1, ref |-> NewRef(h)])

\* Instances only locals referred to are gone when the call is over.
Collect(h, keep) == [r \in DOMAIN h \cap keep |-> h[r]]

---------------------------------------------------------------------------
\* Inference (pgmpy BeliefPropagation) and the expectation built on it.

\* BeliefPropagation(model) checks the model first: every node needs a
\* materialised CPD whose evidence is the node's parent set.
check_model(m) ==
  \A n \in nodes(m) :
    /\ CpdIndex(m.cpds, n) # 0
    /\ get_cpds(m, n).table # <<>>
    /\ Range(get_cpds(m, n).evidence) = Range(get_parents(m, n))

\* The column of a table that the joint outcome a selects (0-based), over the
\* first i evidence variables.
RECURSIVE CtxIdx(_, _, _, _)
CtxIdx(ev, i, m, a) ==
  IF i = 0 THEN 0
  ELSE CtxIdx(ev, i - 1, m, a) * get_cardinality(m, ev[i]) + a[ev[i]]

Entry(cpd, m, a) ==
  cpd.table[a[cpd.variable] + 1][CtxIdx(cpd.evidence, Len(cpd.evidence), m, a) + 1]

\* Every joint outcome of the model's variables that agrees with the context.
Outcomes(m, context) ==
  {a \in [nodes(m) -> 0 .. MaxCard - 1] :
     /\ \A n \in nodes(m) : a[n] < get_cardinality(m, n)
     /\ \A n \in DOMAIN context : a[n] = context[n]}

\* The unnormalised probability of a joint outcome: the product of the entries
\* of the CPDs.
Weight(m, a) == ProdOver(nodes(m), [n \in nodes(m) |-> Entry(get_cpds(m, n), m, a)])

\* Lines 174-189: the query raises when the model is not complete, or when the
\* engine cannot answer a query that fixes one of the `broken` decisions.
QueryRaises(m, context) ==
  \/ ~ check_model(m)
  \/ DOMAIN context \cap broken # {}
  \/ ~ (DOMAIN context \subseteq nodes(m))

\* A float as a rational num/den; den = 0 is the NaN that normalising an
\* all-zero factor gives.
NaN == [num |-> 0, den |-> 0]

IsNaN(x) == x.den = 0

\* numpy == on floats: NaN equals nothing.
FloatEq(x, y) == ~ IsNaN(x) /\ ~ IsNaN(y) /\ x.num * y.den = y.num * x.den

FloatLe(x, y) == ~ IsNaN(x) /\ ~ IsNaN(y) /\ x.num * y.den <= y.num * x.den

\* Lines 191-203: normalise the factor over the utility nodes and sum
\* (sum of the utility nodes' state values) * probability.
expected_utility(m, context) ==
  Bind(Outcomes(m, context),
       LAMBDA O :
         Bind(SumOver(O, [a \in O |-> Weight(m, a)]),
              LAMBDA den :
                IF den = 0 THEN NaN
                ELSE [num |-> SumOver(O, [a \in O |->
                                Weight(m, a)
                                * SumOver(Range(m.utility_nodes),
                                          [u \in Range(m.utility_nodes) |-> a[u]])]),
                      den |-> den]))

\* np.max: NaN as soon as one entry is NaN.
NpMax(us) ==
  IF \E i \in DOMAIN us : IsNaN(us[i]) THEN NaN
  ELSE us[CHOOSE i \in DOMAIN us : \A j \in DOMAIN us : FloatLe(us[j], us[i])]

---------------------------------------------------------------------------
\* Policy imputation.

\* Lines 79-81: get_cpds(d).state_names raises when d has no CPD.
impute_random_decision(h, ref, d) ==
  IF CpdIndex(h[ref].cpds, d) = 0 THEN [heap |-> h, err |-> "AttributeError"]
  ELSE add_cpds(h, ref, <<NullCPD(d, get_cardinality(h[ref], d))>>)

\* Lines 83-86: the loop stops at the first decision that raises.
RECURSIVE RandomLoop(_, _, _, _)
RandomLoop(h, ref, ds, i) ==
  IF i > Len(ds) THEN [heap |-> h, err |-> "ok"]
  ELSE Bind(impute_random_decision(h, ref, ds[i]),
            LAMBDA r : IF r.err # "ok" THEN r
                       ELSE Bind(i + 1, LAMBDA j : RandomLoop(r.heap, ref, ds, j)))

impute_random_policy(h, ref) == RandomLoop(h, ref, h[ref].decision_nodes, 1)

freeze_policy_lenient(h, ref, d) ==
  Bind(get_cpds(h[ref], d),
       LAMBDA cpd :
         IF cpd.kind = "Tabular" THEN add_cpds(h, ref, <<cpd>>)
         ELSE IF ~ hasConvert(cpd) THEN [heap |-> h, err |-> "AttributeError"]
         ELSE IF cpd.table = <<>> THEN [heap |-> h, err |-> "ValueError"]
         ELSE add_cpds(h, ref, <<convertToTabularCPD(cpd)>>))

\* Lines 106-108: get_cpds(d).convertToTabularCPD() raises AttributeError when
\* d has no CPD or one without that method, before add_cpds is reached.
freeze_policy(h, ref, d) ==
  Bind(get_cpds(h[ref], d),
       LAMBDA cpd :
         IF ~ hasConvert(cpd) THEN [heap |-> h, err |-> "AttributeError"]
         ELSE IF cpd.table = <<>> THEN [heap |-> h, err |-> "ValueError"]
         ELSE add_cpds(h, ref, <<convertToTabularCPD(cpd)>>))

\* The k-th (0-based) element of itertools.product over the parents' index
\* ranges, as a context.
ContextAt(m, parents, k) ==
  [p \in Range(parents) |->
     Bind(CHOOSE j \in DOMAIN parents : parents[j] = p,
          LAMBDA i :
            (k \div Product([j \in 1 .. Len(parents) - i |->
                               get_cardinality(m, parents[i + j])]))
            % get_cardinality(m, p))]

\* Lines 116-126: the contexts over the parents of a decision; the code
\* returns None for a decision without parents (here the empty sequence).
possible_contexts(m, decision) ==
  Bind(get_parents(m, decision),
       LAMBDA parents :
         IF parents # <<>>
         THEN <<>> \o [k \in 1 .. Product([i \in DOMAIN parents |->
                                             get_cardinality(m, parents[i])]) |->
                         ContextAt(m, parents, k - 1)]
         ELSE <<>>)

\* Lines 164-165.
WithAct(context, decision, act) ==
  [n \in DOMAIN context \cup {decision} |->
     IF n = decision THEN act ELSE context[n]]

ArgMaxDescending(us) ==
  Bind(NpMax(us),
       LAMBDA mx :
         Bind(SelectSeq([i \in DOMAIN us |-> i], LAMBDA i : FloatEq(us[i], mx)),
              LAMBDA idx : [k \in DOMAIN idx |-> idx[Len(idx) + 1 - k] - 1]))

ArgMaxOnlyFirst(us) ==
  Bind(NpMax(us),
       LAMBDA mx :
         Bind(SelectSeq([i \in DOMAIN us |-> i], LAMBDA i : FloatEq(us[i], mx)),
              LAMBDA idx : IF idx = <<>> THEN <<>> ELSE <<idx[1] - 1>>))

\* Line 168, np.where(utilities == np.max(utilities)): the (0-based) indices
\* whose utility equals the maximum, in index order.
ArgMax(us) ==
  Bind(NpMax(us),
       LAMBDA mx :
         Bind(SelectSeq([i \in DOMAIN us |-> i], LAMBDA i : FloatEq(us[i], mx)),
              LAMBDA idx : [k \in DOMAIN idx |-> idx[k] - 1]))

\* What _optimal_decisions gives when it raises.
Raised(h, cpds) ==
  [heap |-> h, err |-> "raise", acts |-> <<>>, warned |-> FALSE,
   utilities |-> <<>>, model |-> cpds]

\* Lines 157-172: the optimal actions of `decision` in `context`, evaluated on
\* a copy in which the decision is replaced by a placeholder.
optimal_decisions(h, ref, decision, context) ==
  Bind(copy(h, ref),
       LAMBDA c :
  Bind(impute_random_decision(c.heap, c.ref, decision),
       LAMBDA r :
  Bind(get_cardinality(h[ref], decision),
       LAMBDA card :
         IF r.err # "ok" \/ card = 0 THEN Raised(r.heap, r.heap[c.ref].cpds)
         ELSE IF \E a \in 1 .. card :
                   QueryRaises(r.heap[c.ref], WithAct(context, decision, a - 1))
           THEN Raised(r.heap, r.heap[c.ref].cpds)
         ELSE
  Bind(<<>> \o [a \in 1 .. card |->
                  expected_utility(r.heap[c.ref], WithAct(context, decision, a - 1))],
       LAMBDA us :
  Bind(ArgMax(us),
       LAMBDA best :
         [heap |-> r.heap, err |-> "ok",
          acts |-> IF Len(best) = 0 THEN [a \in 1 .. card |-> a - 1] ELSE best,
          warned |-> Len(best) = 0,
          utilities |-> us,
          model |-> r.heap[c.ref].cpds])))))

\* Lines 129-137: one _optimal_decisions call per context, from the i-th on.
RECURSIVE ActionsLoop(_, _, _, _, _, _)
ActionsLoop(h, ref, decision, contexts, i, done) ==
  IF i > Len(contexts) THEN [heap |-> h, err |-> "ok", steps |-> done]
  ELSE
  Bind(optimal_decisions(h, ref, decision, contexts[i]),
       LAMBDA o :
  Bind(Append(done, [context |-> contexts[i], utilities |-> o.utilities,
                     acts |-> o.acts, warned |-> o.warned, model |-> o.model]),
       LAMBDA steps :
         IF o.err # "ok" THEN [heap |-> o.heap, err |-> "raise", steps |-> steps]
         ELSE Bind(i + 1,
                   LAMBDA j : ActionsLoop(o.heap, ref, decision, contexts, j, steps))))

\* Lines 128-155: the table that gives probability 1 to the first optimal
\* action of each context.
get_sp_policy(h, ref, decision) ==
  Bind(get_parents(h[ref], decision),
       LAMBDA parents :
         IF \/ CpdIndex(h[ref].cpds, decision) = 0
            \/ \E i \in DOMAIN parents : CpdIndex(h[ref].cpds, parents[i]) = 0
         THEN [heap |-> h, err |-> "raise", cpd |-> NoCpd, steps |-> <<>>]
         ELSE
  Bind(possible_contexts(h[ref], decision),
       LAMBDA contexts :
  Bind(ActionsLoop(h, ref, decision,
                   IF contexts # <<>> THEN contexts ELSE << <<>> >>, 1, <<>>),
       LAMBDA loop :
         IF loop.err # "ok"
         THEN [heap |-> loop.heap, err |-> "raise", cpd |-> NoCpd,
               steps |-> loop.steps]
         ELSE [heap |-> loop.heap, err |-> "ok",
               cpd |-> TabularCPD(
                         decision, get_cardinality(h[ref], decision),
                         indices_to_prob_table(
                           [k \in DOMAIN loop.steps |-> loop.steps[k].acts[1]],
                           get_cardinality(h[ref], decision)),
                         parents),
               steps |-> loop.steps])))

---------------------------------------------------------------------------
\* The recall check.

\* pgmpy active_trail_nodes (Koller & Friedman, algorithm 3.1): the pairs
\* (node, direction) reachable from (start, "up") given the observed nodes.
Successors(edges, observed, anc, v) ==
  IF v[2] = "up" /\ v[1] \notin observed
    THEN {<<e[1], "up">> : e \in {f \in edges : f[2] = v[1]}}
         \cup {<<e[2], "down">> : e \in {f \in edges : f[1] = v[1]}}
  ELSE IF v[2] = "down"
    THEN (IF v[1] \notin observed
          THEN {<<e[2], "down">> : e \in {f \in edges : f[1] = v[1]}}
          ELSE {})
         \cup
         (IF v[1] \in anc
          THEN {<<e[1], "up">> : e \in {f \in edges : f[2] = v[1]}}
          ELSE {})
  ELSE {}

RECURSIVE Reach(_, _, _, _)
Reach(edges, observed, anc, visited) ==
  Bind(visited \cup UNION {Successors(edges, observed, anc, v) : v \in visited},
       LAMBDA more : IF more = visited THEN visited
                     ELSE Reach(edges, observed, anc, more))

is_active_trail(m, start, end, observed) ==
  Bind(AncestorsFrom(m.edges, observed),
       LAMBDA anc :
         end \in {v[1] : v \in Reach(m.edges, observed, anc, {<<start, "up">>})}
                 \ observed)

\* The marker edge added to the instance the check was called on.
add_edge_to_caller(h, ref, u, v) == [h EXCEPT ![Self].edges = @ \cup {<<u, v>>}]

\* Line 61: the edge is added to the instance the reference names.
add_edge(h, ref, u, v) == [h EXCEPT ![ref].edges = @ \cup {<<u, v>>}]

RecallTripleAnyUtility(h, ref, d1, d2, u) ==
  Bind(copy(h, ref),
       LAMBDA c :
         Bind(add_edge(c.heap, c.ref, "pi", d1),
              LAMBDA h2 :
                [heap |-> h2,
                 connected |->
                   is_active_trail(h2[c.ref], "pi", u,
                                   Range(get_parents(h2[c.ref], d2)) \cup {d2})]))

\* Lines 59-70, the body of the innermost loop for one (decision1, decision2,
\* utility): the heap after it and whether the trail is active.
RecallTriple(h, ref, d1, d2, u) ==
  IF d2 \in get_ancestors_of(h[ref], u)
  THEN Bind(copy(h, ref),
            LAMBDA c :
              Bind(add_edge(c.heap, c.ref, "pi", d1),
                   LAMBDA h2 :
                     [heap |-> h2,
                      connected |->
                        is_active_trail(h2[c.ref], "pi", u,
                                        Range(get_parents(h2[c.ref], d2)) \cup {d2})]))
  ELSE [heap |-> h, connected |-> FALSE]

\* Lines 56-58: the (i, j, utility) index triples in the order the three loops
\* visit them: decision_ordering[i], decision_ordering[i+1:], utility_nodes.
Triples(n, k) ==
  SelectSeq([t \in 1 .. n * n * k |->
               <<((t - 1) \div (n * k)) + 1, (((t - 1) \div k) % n) + 1,
                 ((t - 1) % k) + 1>>],
            LAMBDA t : t[1] < t[2])

RECURSIVE RecallLoop(_, _, _, _, _, _)
RecallLoop(h, ref, ordering, utilities, ts, i) ==
  IF i > Len(ts) THEN [heap |-> h, value |-> TRUE, at |-> <<>>]
  ELSE Bind(RecallTriple(h, ref, ordering[ts[i][1]], ordering[ts[i][2]],
                         utilities[ts[i][3]]),
            LAMBDA r :
              IF r.connected
              THEN [heap |-> r.heap, value |-> FALSE,
                    at |-> <<ordering[ts[i][1]], ordering[ts[i][2]],
                             utilities[ts[i][3]]>>]
              ELSE Bind(i + 1,
                        LAMBDA j : RecallLoop(r.heap, ref, ordering, utilities, ts, j)))

\* Lines 54-71.
check_sufficient_recall(h, ref) ==
  Bind(get_valid_order(h[ref], h[ref].decision_nodes),
       LAMBDA ordering :
         Bind(Triples(Len(ordering), Len(h[ref].utility_nodes)),
              LAMBDA ts :
                RecallLoop(h, ref, ordering, h[ref].utility_nodes, ts, 1)))

---------------------------------------------------------------------------
\* Construction: CID(ebunch, decision_nodes, utility_nodes), lines 19-24,
\* followed by the caller's first add_cpds.

Decisions == {"D1", "D2"}

NoResult == [status |-> "none", value |-> <<>>]

NoLast == [batch |-> <<>>, d |-> ""]

NoTrace == [decision |-> "", steps |-> <<>>]

\* The i-th of the n digits of k in base MaxCard.
Digit(k, i, n) == (k \div Product([j \in 1 .. n - i |-> MaxCard])) % MaxCard

\* The utility functions the callers use: 1 when the first and the last parent
\* agree ("match") or differ ("differ"), or the value of the last parent.
UtilityValue(ufun, k, n) ==
  IF ufun = "match" THEN (IF Digit(k, 1, n) = Digit(k, n, n) THEN 1 ELSE 0)
  ELSE IF ufun = "differ" THEN (IF Digit(k, 1, n) = Digit(k, n, n) THEN 0 ELSE 1)
  ELSE Digit(k, n, n)

UtilityCPD(m, u, ufun) ==
  Bind(get_parents(m, u),
       LAMBDA ps :
         TabularCPD(u, MaxCard,
           indices_to_prob_table(
             [k \in 1 .. Product([j \in DOMAIN ps |-> MaxCard]) |->
                UtilityValue(ufun, k - 1, Len(ps))], MaxCard),
           ps))

\* A chance node is uniform, or puts all its mass on state 0.
ChanceCPD(m, x, shape) ==
  Bind(get_parents(m, x),
       LAMBDA ps :
         TabularCPD(x, MaxCard,
           IF shape = "uniform"
           THEN Ones(MaxCard, Product([j \in DOMAIN ps |-> MaxCard]))
           ELSE indices_to_prob_table(
                  [k \in 1 .. Product([j \in DOMAIN ps |-> MaxCard]) |-> 0], MaxCard),
           ps))

InitCommon ==
  /\ pc = "idle"
  /\ op = "none"
  /\ tgt = Self
  /\ todo = <<>>
  /\ computed = <<>>
  /\ trace = NoTrace
  /\ result = NoResult
  /\ last = NoLast

\* The diagrams the solver is run on.
SolveGraphs ==
  { {<<"X", "U">>, <<"D1", "U">>},
    {<<"X", "D1">>, <<"X", "U">>, <<"D1", "U">>},
    {<<"D1", "D2">>, <<"D2", "U">>},
    {<<"D1", "U">>, <<"D2", "U">>},
    {<<"D1", "D2">>, <<"D1", "U">>, <<"D2", "U">>},
    {<<"X", "D1">>, <<"D1", "D2">>, <<"X", "U">>, <<"D2", "U">>} }

\* The first add_cpds of a caller of the solver: the chance and the utility
\* node get tables, the decisions in `placed` get placeholders.
FirstBatch(m, shape, ufun, placed) ==
  (IF "X" \in nodes(m) THEN <<ChanceCPD(m, "X", shape)>> ELSE <<>>)
  \o <<UtilityCPD(m, "U", ufun)>>
  \o [i \in 1 .. Cardinality(placed) |-> NullCPD(SetToSeq(placed)[i], MaxCard)]

InitSolve ==
  /\ InitCommon
  /\ \E g \in SolveGraphs, shape \in {"uniform", "point"},
        ufun \in {"match", "differ", "last"}, placed \in SUBSET Decisions :
       \E m \in {CID(g, SetToSeq(Decisions \cap nodes([edges |-> g])), <<"U">>)} :
         /\ placed \subseteq nodes(m)
         /\ ("X" \in nodes(m) \/ shape = "uniform")
         /\ heap = add_cpds(<<m>>, Self, FirstBatch(m, shape, ufun, placed)).heap
         /\ pre = heap[Self]
         /\ broken \in {{}} \cup {{d} : d \in Decisions \cap nodes(m)}

---------------------------------------------------------------------------
\* solve (lines 110-114) and impute_optimal_policy (lines 73-77).  The list
\* comprehension of line 77 calls _get_sp_policy once per decision, in reverse
\* topological order, and only then hands the whole list to add_cpds.

SolveBegin ==
  /\ pc = "idle"
  /\ \E c \in {copy(heap, Self)} :
       /\ heap' = c.heap
       /\ tgt' = c.ref
       /\ todo' = Reverse(get_valid_order(c.heap[c.ref],
                                          c.heap[c.ref].decision_nodes))
  /\ pc' = "policy"
  /\ op' = "solve"
  /\ computed' = <<>>
  /\ trace' = NoTrace
  /\ result' = NoResult
  /\ pre' = heap[Self]
  /\ last' = NoLast
  /\ UNCHANGED broken

ImputeBegin ==
  /\ pc = "idle"
  /\ tgt' = Self
  /\ todo' = Reverse(get_valid_order(heap[Self], heap[Self].decision_nodes))
  /\ pc' = "policy"
  /\ op' = "impute_optimal_policy"
  /\ computed' = <<>>
  /\ trace' = NoTrace
  /\ result' = NoResult
  /\ pre' = heap[Self]
  /\ last' = NoLast
  /\ UNCHANGED <<heap, broken>>

\* A solver that attaches each rule as soon as it is computed.
PolicyStepEager ==
  /\ pc = "policy"
  /\ todo # <<>>
  /\ \E r \in {get_sp_policy(heap, tgt, Head(todo))} :
       /\ trace' = [decision |-> Head(todo), steps |-> r.steps]
       /\ IF r.err = "ok"
          THEN /\ heap' = Collect(add_cpds(r.heap, tgt, <<r.cpd>>).heap, {Self, tgt})
               /\ computed' = Append(computed, r.cpd)
               /\ todo' = Tail(todo)
               /\ UNCHANGED <<pc, result>>
          ELSE /\ heap' = Collect(r.heap, {Self})
               /\ pc' = "failed"
               /\ result' = [status |-> "raise", value |-> <<>>]
               /\ UNCHANGED <<computed, todo>>
  /\ UNCHANGED <<op, tgt, pre, last, broken>>

\* One element of the comprehension of line 77: _get_sp_policy(d) on the
\* solver's instance.  An exception leaves the comprehension, and the call.
PolicyStep ==
  /\ pc = "policy"
  /\ todo # <<>>
  /\ \E r \in {get_sp_policy(heap, tgt, Head(todo))} :
       /\ trace' = [decision |-> Head(todo), steps |-> r.steps]
       /\ IF r.err = "ok"
          THEN /\ heap' = Collect(r.heap, {Self, tgt})
               /\ computed' = Append(computed, r.cpd)
               /\ todo' = Tail(todo)
               /\ UNCHANGED <<pc, result>>
          ELSE /\ heap' = Collect(r.heap, {Self})
               /\ pc' = "failed"
               /\ result' = [status |-> "raise", value |-> <<>>]
               /\ UNCHANGED <<computed, todo>>
  /\ UNCHANGED <<op, tgt, pre, last, broken>>

\* The add_cpds of line 77 and, for solve, the mapping of line 114.
Commit ==
  /\ pc = "policy"
  /\ todo = <<>>
  /\ \E r \in {add_cpds(heap, tgt, computed)} :
       /\ heap' = Collect(r.heap, {Self})
       /\ IF r.err # "ok"
          THEN pc' = "failed" /\ result' = [status |-> "raise", value |-> <<>>]
          ELSE /\ pc' = "done"
               /\ result' =
                    [status |-> "ok",
                     value |-> IF op = "solve"
                               THEN [d \in Range(r.heap[tgt].decision_nodes) |->
                                       get_cpds(r.heap[tgt], d)]
                               ELSE <<>>]
  /\ UNCHANGED <<op, tgt, todo, computed, trace, pre, last, broken>>

\* The call is over; the caller goes on with its instance.
Return ==
  /\ pc \in {"done", "failed"}
  /\ pc' = "idle"
  /\ tgt' = Self
  /\ todo' = <<>>
  /\ computed' = <<>>
  /\ trace' = NoTrace
  /\ UNCHANGED <<heap, op, result, pre, last, broken>>

NextSolve == SolveBegin \/ ImputeBegin \/ PolicyStep \/ Commit \/ Return

SpecSolve == InitSolve /\ [][NextSolve]_vars

---------------------------------------------------------------------------
\* The attachment operations a caller runs on its own instance.

AttachGraph == {<<"X", "D1">>, <<"X", "U">>, <<"D1", "U">>}

\* The distributions the callers attach: a table for X, a placeholder and a
\* function of X for D1, a table for a variable that is no node of the model,
\* and an object that is no distribution.
Candidates ==
  Bind(CID(AttachGraph, <<"D1">>, <<"U">>),
       LAMBDA m :
         { ChanceCPD(m, "X", "uniform"),
           NullCPD("D1", MaxCard),
           FunctionCPD("D1", [k \in 1 .. MaxCard |-> k - 1], <<"X">>),
           TabularCPD("Z", MaxCard, Ones(MaxCard, 1), <<>>),
           [ChanceCPD(m, "X", "uniform") EXCEPT !.kind = "Factor"] })

Batches == UNION {[1 .. n -> Candidates] : n \in 1 .. MaxBatch}

InitAttach ==
  /\ InitCommon
  /\ heap = <<CID(AttachGraph, <<"D1">>, <<"U">>)>>
  /\ pre = heap[Self]
  /\ broken = {}

\* What an operation that runs in one step leaves behind.
Finish(name, r, args) ==
  /\ heap' = Collect(r.heap, {Self})
  /\ op' = name
  /\ result' = [status |-> IF r.err = "ok" THEN "ok" ELSE "raise", value |-> r.err]
  /\ pre' = heap[Self]
  /\ last' = args
  /\ UNCHANGED <<pc, tgt, todo, computed, trace, broken>>

AddCpds ==
  /\ pc = "idle"
  /\ \E batch \in Batches :
       Finish("add_cpds", add_cpds(heap, Self, batch), [batch |-> batch, d |-> ""])

ImputeRandomDecision ==
  /\ pc = "idle"
  /\ \E d \in {"X", "D1"} :
       Finish("impute_random_decision", impute_random_decision(heap, Self, d),
              [batch |-> <<>>, d |-> d])

ImputeRandomPolicy ==
  /\ pc = "idle"
  /\ Finish("impute_random_policy", impute_random_policy(heap, Self), NoLast)

FreezePolicy ==
  /\ pc = "idle"
  /\ \E d \in {"X", "D1"} :
       Finish("freeze_policy", freeze_policy(heap, Self, d),
              [batch |-> <<>>, d |-> d])

NextAttach == AddCpds \/ ImputeRandomDecision \/ ImputeRandomPolicy \/ FreezePolicy

SpecAttach == InitAttach /\ [][NextAttach]_vars

---------------------------------------------------------------------------
\* The recall check, on every DAG over four nodes.

RecallNodes == {"X", "D1", "D2", "U"}

InitRecall ==
  /\ InitCommon
  /\ \E edges \in SUBSET {e \in RecallNodes \X RecallNodes : e[1] # e[2]},
        us \in {<<"U">>, <<"U", "X">>} :
       /\ IsAcyclic(edges)
       /\ Range(us) \subseteq nodes([edges |-> edges])
       /\ heap = <<CID(edges, <<"D1", "D2">>, us)>>
  /\ pre = heap[Self]
  /\ broken = {}

CheckSufficientRecall ==
  /\ pc = "idle"
  /\ \E r \in {check_sufficient_recall(heap, Self)} :
       /\ heap' = Collect(r.heap, {Self})
       /\ result' = [status |-> "ok", value |-> r.value]
       /\ last' = [batch |-> r.at, d |-> ""]
  /\ op' = "check_sufficient_recall"
  /\ pre' = heap[Self]
  /\ UNCHANGED <<pc, tgt, todo, computed, trace, broken>>

NextRecall == CheckSufficientRecall

SpecRecall == InitRecall /\ [][NextRecall]_vars

---------------------------------------------------------------------------
\* Properties.

DecisionsOf(m) == Range(m.decision_nodes)

\* The last _get_sp_policy call returned a rule (the last of `computed`).
RuleBuilt ==
  /\ trace.decision # ""
  /\ computed # <<>>
  /\ computed[Len(computed)].variable = trace.decision

\* Action (1-based) a attains the maximum of the utilities.
Attains(us, a) == \A b \in DOMAIN us : FloatLe(us[b], us[a])

NoneAttains(us) == ~ \E a \in DOMAIN us : Attains(us, a)

AllIdentical(us) == \A a, b \in DOMAIN us : FloatEq(us[a], us[b])

AllActs(us) == [a \in DOMAIN us |-> a - 1]

\* The (1-based) actions that have probability 1 in column k of a table.
Hot(table, k) == {a \in DOMAIN table : table[a][k] = 1}

OneHot(table, k) ==
  /\ Cardinality(Hot(table, k)) = 1
  /\ \A a \in DOMAIN table : table[a][k] \in {0, 1}

\* Every decision of the call holds a table: in the returned mapping (solve)
\* or in the caller's instance (impute_optimal_policy).
AllTabular ==
  \A d \in DecisionsOf(pre) :
    IF op = "solve" THEN d \in DOMAIN result.value /\ result.value[d].kind = "Tabular"
    ELSE get_cpds(heap[Self], d).kind = "Tabular"

\* C1: while the candidate actions of a decision are evaluated, every decision
\* that comes later in the topological order (its rule is already in
\* `computed`) holds that rule in the model the expected utility is computed on.
C1_LaterDecisionsCommitted ==
  \A k \in DOMAIN trace.steps : \A i \in DOMAIN computed :
    computed[i].variable # trace.decision =>
      get_cpds([cpds |-> trace.steps[k].model], computed[i].variable) = computed[i]

C1_Witness ==
  /\ pc = "policy"
  /\ trace.decision = "D1"
  /\ Len(computed) = 2
  /\ computed[1].variable = "D2"
  /\ computed[1].kind = "Tabular"
  /\ \E k \in DOMAIN trace.steps :
       /\ trace.steps[k].utilities # <<>>
       /\ get_cpds([cpds |-> trace.steps[k].model], "D2").kind = "Null"

\* C2: solve never changes the instance it is called on, whether it returns
\* or raises: edges, role lists and every attached distribution stay as they
\* were when the call started.
C2_SolveKeepsCaller == op = "solve" => heap[Self] = pre

C2_Witness ==
  /\ op = "solve"
  /\ pc = "done"
  /\ \E d \in DOMAIN result.value :
       result.value[d].kind = "Tabular" /\ get_cpds(pre, d).kind = "Null"

\* C4: the solver commits all rules or none.  While the rules are computed and
\* after a failure the instance holds what it held before the call; after a
\* normal return every decision holds a table.
C4_AllOrNothing ==
  /\ (pc \in {"policy", "failed"} => heap[Self] = pre)
  /\ (pc = "policy" => heap[tgt].cpds = pre.cpds)
  /\ (pc = "failed" => result.status = "raise")
  /\ (pc = "done" => AllTabular)

C4_Witness ==
  /\ op = "impute_optimal_policy"
  /\ pc = "failed"
  /\ computed # <<>>

\* C6 as stated: a decision that starts with a placeholder or with no
\* distribution at all is solved (the engine raising nothing), and every
\* decision ends with a table.
C6_UndistributedDecisionSolves ==
  (pc \in {"done", "failed"} /\ broken = {}) => (pc = "done" /\ AllTabular)

\* C6 amended: when every decision starts with a distribution the solve ends
\* with a table on every decision; when some decision starts with none the
\* solve raises and commits nothing.
C6_PlaceholderDecisionSolves ==
  (pc \in {"done", "failed"} /\ broken = {}) =>
    IF \A d \in DecisionsOf(pre) : CpdIndex(pre.cpds, d) # 0
    THEN pc = "done" /\ AllTabular
    ELSE pc = "failed" /\ heap[Self] = pre

C6_Witness ==
  /\ op = "impute_optimal_policy"
  /\ pc = "done"
  /\ broken = {}
  /\ \E d \in DecisionsOf(pre) :
       get_cpds(pre, d).kind = "Null" /\ get_cpds(heap[Self], d).kind = "Tabular"

\* The shape of the rule _get_sp_policy built: one row per action, one column
\* per element of the product of the parents' index ranges (one column for a
\* decision without parents), column k belonging to the k-th context, and
\* every column one-hot.
RuleShape(cpd, steps) ==
  Bind(get_parents(pre, cpd.variable),
       LAMBDA ps :
         /\ Len(cpd.table) = cpd.card
         /\ Len(steps) = Product([i \in DOMAIN ps |-> get_cardinality(pre, ps[i])])
         /\ \A a \in DOMAIN cpd.table : Len(cpd.table[a]) = Len(steps)
         /\ \A k \in DOMAIN steps :
              /\ DOMAIN steps[k].context = Range(ps)
              /\ \A i \in DOMAIN ps :
                   steps[k].context[ps[i]] = Digit(k - 1, i, Len(ps))
              /\ OneHot(cpd.table, k))

\* C9 as stated: the rule is one-hot per context, and the action with
\* probability 1 is the lowest-index action among those attaining the maximum
\* expected utility of the context.
C9_FirstMaximiserChosen ==
  RuleBuilt =>
    /\ RuleShape(computed[Len(computed)], trace.steps)
    /\ \A k \in DOMAIN trace.steps :
         \A a \in Hot(computed[Len(computed)].table, k) :
           /\ Attains(trace.steps[k].utilities, a)
           /\ \A b \in 1 .. a - 1 : ~ Attains(trace.steps[k].utilities, b)

\* C9 amended: ... the lowest-index action among those attaining the maximum,
\* or action 0 when no action attains it (the expected utilities are NaN).
C9_FirstMaximiserOrZero ==
  RuleBuilt =>
    /\ RuleShape(computed[Len(computed)], trace.steps)
    /\ \A k \in DOMAIN trace.steps :
         \A a \in Hot(computed[Len(computed)].table, k) :
           IF NoneAttains(trace.steps[k].utilities) THEN a = 1
           ELSE /\ Attains(trace.steps[k].utilities, a)
                /\ \A b \in 1 .. a - 1 : ~ Attains(trace.steps[k].utilities, b)

C9_Witness ==
  /\ RuleBuilt
  /\ Len(trace.steps) > 1
  /\ \E k \in DOMAIN trace.steps :
       /\ Hot(computed[Len(computed)].table, k) = {2}
       /\ ~ Attains(trace.steps[k].utilities, 1)
  /\ \E k \in DOMAIN trace.steps : Hot(computed[Len(computed)].table, k) = {1}

\* C10 as stated: when all candidate actions have the same expected utility, or
\* none attains the maximum, _optimal_decisions warns and returns all actions
\* in index order.
C10_WarnsWhenIdentical ==
  \A k \in DOMAIN trace.steps :
    (/\ trace.steps[k].utilities # <<>>
     /\ \/ AllIdentical(trace.steps[k].utilities)
        \/ NoneAttains(trace.steps[k].utilities))
    => /\ trace.steps[k].warned
       /\ trace.steps[k].acts = AllActs(trace.steps[k].utilities)

\* C10 amended: when all candidate actions have the same expected utility all
\* actions are returned in index order without a warning; the warning is
\* emitted exactly when no action attains the maximum, and then all actions
\* are returned in index order and nothing is raised.
C10_WarnsOnlyWhenNoneAttains ==
  \A k \in DOMAIN trace.steps :
    trace.steps[k].utilities # <<>> =>
      /\ trace.steps[k].warned <=> NoneAttains(trace.steps[k].utilities)
      /\ AllIdentical(trace.steps[k].utilities) =>
           trace.steps[k].acts = AllActs(trace.steps[k].utilities)
      /\ NoneAttains(trace.steps[k].utilities) =>
           /\ trace.steps[k].acts = AllActs(trace.steps[k].utilities)
           /\ (k = Len(trace.steps) => pc # "failed")

C10_Witness ==
  /\ RuleBuilt
  /\ \E k \in DOMAIN trace.steps :
       trace.steps[k].warned /\ NoneAttains(trace.steps[k].utilities)
  /\ \E k \in DOMAIN trace.steps :
       ~ trace.steps[k].warned /\ AllIdentical(trace.steps[k].utilities)

\* Two distributions are the same distribution, whatever table a placeholder
\* or a function has been materialised to.
SameDist(c1, c2) ==
  /\ c1.variable = c2.variable
  /\ c1.kind = c2.kind
  /\ c1.card = c2.card
  /\ c1.fn = c2.fn
  /\ c1.kind = "Tabular" => (c1.table = c2.table /\ c1.evidence = c2.evidence)

Acceptable(cpd, m) == cpd.kind \in AcceptedKinds /\ scope(cpd) \subseteq nodes(m)

\* The CPDs of a batch that come before its first unacceptable one.
Attached(batch, m) ==
  SubSeq(batch, 1,
         Min({i \in DOMAIN batch : ~ Acceptable(batch[i], m)} \cup {Len(batch) + 1}) - 1)

C7_FreezeTabularSucceeds ==
  (op = "freeze_policy" /\ get_cpds(pre, last.d).kind = "Tabular") =>
    (result.status = "ok" /\ heap[Self] = pre)

\* C7 amended: freeze_policy on a functional distribution replaces it by the
\* table it was materialised to; on a node whose distribution is already a
\* table it raises AttributeError and leaves the instance as it was (the table
\* is the same, but the second call does not succeed).
C7_FreezeTabularRaises ==
  /\ (op = "freeze_policy" /\ get_cpds(pre, last.d).kind = "Tabular") =>
       /\ result.status = "raise"
       /\ result.value = "AttributeError"
       /\ heap[Self] = pre
  /\ (op = "freeze_policy" /\ get_cpds(pre, last.d).kind = "Function"
        /\ get_cpds(pre, last.d).table # <<>>) =>
       /\ result.status = "ok"
       /\ get_cpds(heap[Self], last.d).kind = "Tabular"
       /\ get_cpds(heap[Self], last.d).table = get_cpds(pre, last.d).table

C7_Witness ==
  /\ op = "freeze_policy"
  /\ last.d = "D1"
  /\ get_cpds(pre, "D1").kind = "Tabular"
  /\ result.status = "raise"

\* The graph of m with the marker edge pi -> d1.
WithMarker(m, d1) == [m EXCEPT !.edges = @ \cup {<<"pi", d1>>}]

\* The index triples (i, j, k), d1 = ordering[i] strictly before d2 =
\* ordering[j], u = utility_nodes[k] having d2 as an ancestor, with an active
\* trail from pi to u given parents(d2) and d2.
ViolatingTriples(m) ==
  Bind(get_valid_order(m, m.decision_nodes),
       LAMBDA ord :
         {t \in (DOMAIN ord) \X (DOMAIN ord) \X (DOMAIN m.utility_nodes) :
            /\ t[1] < t[2]
            /\ ord[t[2]] \in get_ancestors_of(m, m.utility_nodes[t[3]])
                             \ {m.utility_nodes[t[3]]}
            /\ is_active_trail(WithMarker(m, ord[t[1]]), "pi", m.utility_nodes[t[3]],
                               Range(get_parents(m, ord[t[2]])) \cup {ord[t[2]]})})

Before(s, t) ==
  \/ s[1] < t[1]
  \/ s[1] = t[1] /\ s[2] < t[2]
  \/ s[1] = t[1] /\ s[2] = t[2] /\ s[3] <= t[3]

\* C3: check_sufficient_recall returns true exactly when there is no such
\* triple, and it returns false at the first such triple in loop order.
C3_RecallIffNoActiveTriple ==
  op = "check_sufficient_recall" =>
    Bind(ViolatingTriples(pre),
         LAMBDA V :
           /\ result.value = (V = {})
           /\ V # {} =>
                Bind(CHOOSE s \in V : \A t \in V : Before(s, t),
                     LAMBDA s :
                       Bind(get_valid_order(pre, pre.decision_nodes),
                            LAMBDA ord :
                              last.batch = <<ord[s[1]], ord[s[2]],
                                             pre.utility_nodes[s[3]]>>)))

C3_Witness ==
  /\ op = "check_sufficient_recall"
  /\ result.value = FALSE
  /\ last.batch[3] = "X"
  /\ Cardinality(ViolatingTriples(pre)) = 1

\* C8: check_sufficient_recall leaves the instance it is called on as it was:
\* no marker node, no marker edge, and no copy survives the call.
C8_RecallKeepsCaller ==
  op = "check_sufficient_recall" =>
    /\ heap[Self] = pre
    /\ "pi" \notin nodes(heap[Self])
    /\ DOMAIN heap = {Self}

C8_Witness ==
  /\ op = "check_sufficient_recall"
  /\ result.value = TRUE
  /\ \E u \in Range(pre.utility_nodes) :
       {"D1", "D2"} \subseteq get_ancestors_of(pre, u)

=============================================================================
